---- MODULE Spec2Model ----
(***************************************************************************)
(* Model of the cnab-to-oci registry client core:                          *)
(*   - remotes.Push and its helpers (src/remotes/push.go): the push of a   *)
(*     bundle config blob, its manifest and the index, with fallbacks;     *)
(*   - the token scope accumulator (src/unnamed/part_000): tokenScopes     *)
(*     with add, merge, contains, flatten, clone, the contexts that carry  *)
(*     them and the token strings.                                         *)
(* The specifications share the variables:                                 *)
(*   Spec      one Push call against a transport that may answer anything; *)
(*   RaceSpec  two Push calls of the same bundle and reference against a   *)
(*             registry that stores payloads by digest;                    *)
(*   ScopeSpec the scope sets, with Go's map aliasing kept (a heap of      *)
(*             action maps);                                               *)
(*   CloneSpec the scope sets with the calls since the last clone          *)
(*             followed;                                                   *)
(*   CtxSpec   contexts derived by contextWithRepositoryScope and read by  *)
(*             getTokenScopes;                                             *)
(*   ParseSpec tokens parsed or built, written by String and parsed back.  *)
(***************************************************************************)
EXTENDS Integers, Sequences, FiniteSets, TLC

\* ------------------------------------------------------------------ bounds
\* longest chain of PreparedBundleConfig representations (Fallback links)
MaxChain == 2
\* most ManifestOption callbacks given to Push
MaxOptions == 2

VARIABLES
    \* ---- Push: the arguments of the call(s)
    allowFallbacks, \* Push's allowFallbacks parameter
    chainLen,       \* length of the PreparedBundleConfig chain, 0 when PrepareForPush fails
    convertOK,      \* whether converter.ConvertBundleToOCIIndex accepts the bundle
    nOptions,       \* number of ManifestOption callbacks
    fallible,       \* the callbacks that may return an error
    \* ---- the registry behind the resolver
    registry,       \* "any": answers anything; "cas": stores payloads by digest
    store,          \* digests the registry holds
    \* ---- per Push call
    pc,             \* position of the call
    site,           \* the payload pushPayload is pushing
    rep,            \* bundleConfig of the running pushBundleConfig (index in the chain)
    confDesc,       \* confManifestDescriptor
    ixDesc,         \* indexDescriptor
    openSinks,      \* writers acquired and not yet closed
    result,         \* what Push returned
    log,            \* the pushPayload calls made, with what each returned
    lastStep,       \* the transport call that ended the last pushPayload
    optLog,         \* the ManifestOption callbacks invoked, in order
    \* ---- scope sets
    heap,           \* the action maps (map[string]interface{}), by address
    sets,           \* the tokenScopes values held by the program
    last,           \* the last scope operation and what it returned
    panicked,       \* a Go runtime panic ended the scope program
    track           \* the last clone and the side add and merge were called on since

pushVars == <<allowFallbacks, chainLen, convertOK, nOptions, fallible, registry, store,
              pc, site, rep, confDesc, ixDesc, openSinks, result, log, lastStep, optLog>>
scopeVars == <<heap, sets, last, panicked, track>>
vars == <<pushVars, scopeVars>>

\* ================================================================== Push

Procs == {1, 2}

\* ocischemav1.Descriptor; the digest stands for the payload's content, the size
\* follows the payload and is left out.
NoDigest == [kind |-> "none", rep |-> 0]
EmptyDescriptor == [mediaType |-> "", digest |-> NoDigest]

MediaTypeImageIndex == "application/vnd.oci.image.index.v1+json"
MediaTypeDockerSchema2ManifestList == "application/vnd.docker.distribution.manifest.list.v2+json"

\* PreparedBundleConfig r of the chain: its two descriptors and its Fallback
ConfigBlobDescriptor(r) == [mediaType |-> "config", digest |-> [kind |-> "blob", rep |-> r]]
ManifestDescriptor(r) == [mediaType |-> "manifest", digest |-> [kind |-> "manifest", rep |-> r]]
Fallback(r) == IF r < chainLen THEN r + 1 ELSE 0

\* errors: nil, or what failed and the context fmt.Errorf put around it
NoErr == [kind |-> "nil", site |-> "none", context |-> ""]
TransportErr(s) == [kind |-> "transport", site |-> s, context |-> ""]
ConversionErr(s) == [kind |-> "conversion", site |-> s, context |-> ""]
OptionErr == [kind |-> "option", site |-> "option", context |-> ""]
Errorf(ctxt, e) == [e EXCEPT !.context = ctxt]

ConfigContext == "error while pushing bundle config manifest"
OptionContext == "failed to prepare bundle manifest"

Sites == {"blob", "manifest", "index", "list"}

\* the descriptor pushPayload is called with at the current site
PayloadDescriptor(p) ==
    CASE site[p] = "blob" -> ConfigBlobDescriptor(rep[p])
      [] site[p] = "manifest" -> ManifestDescriptor(rep[p])
      [] OTHER -> ixDesc[p]

\* mutant: the manifest list is given the OCI index media type
IndexDescriptorAlwaysOCI(form, conf) ==
    [mediaType |-> MediaTypeImageIndex,
     digest |-> [kind |-> form, rep |-> conf.digest.rep]]

\* prepareIndex / prepareIndexNonOCI: the descriptor of the marshalled index; the
\* payload, hence the digest, is fixed by the envelope and the config manifest
\* descriptor the index references.
IndexDescriptor(form, conf) ==
    [mediaType |-> IF form = "list" THEN MediaTypeDockerSchema2ManifestList
                   ELSE MediaTypeImageIndex,
     digest |-> [kind |-> form, rep |-> conf.digest.rep]]

\* ---- the transport (resolver, pusher, writer): what it may answer
PusherAnswers == IF registry = "any" THEN {"ok", "err"} ELSE {"ok"}

SinkAnswers(d) ==
    IF registry = "any" THEN {"ok", "exists", "err"}
    ELSE IF d \in store THEN {"exists"} ELSE {"ok"}

\* ---- Push returns
PushReturns(p, desc, e) ==
    /\ pc' = [pc EXCEPT ![p] = "done"]
    /\ result' = [result EXCEPT ![p] = [desc |-> desc, err |-> e]]
    /\ UNCHANGED <<site, rep>>

\* mutant: the fallback is taken whatever allowFallbacks says
AfterConfigPushIgnoresFlag(p, e) ==
    IF e # NoErr
    THEN IF Fallback(rep[p]) # 0
         THEN /\ rep' = [rep EXCEPT ![p] = Fallback(rep[p])]
              /\ site' = [site EXCEPT ![p] = "blob"]
              /\ pc' = [pc EXCEPT ![p] = "pusher"]
              /\ UNCHANGED <<confDesc, result>>
         ELSE /\ PushReturns(p, EmptyDescriptor, Errorf(ConfigContext, e))
              /\ UNCHANGED confDesc
    ELSE IF site[p] = "blob"
         THEN /\ site' = [site EXCEPT ![p] = "manifest"]
              /\ pc' = [pc EXCEPT ![p] = "pusher"]
              /\ UNCHANGED <<rep, confDesc, result>>
         ELSE /\ confDesc' = [confDesc EXCEPT ![p] = ManifestDescriptor(rep[p])]
              /\ site' = [site EXCEPT ![p] = "index"]
              /\ pc' = [pc EXCEPT ![p] = "build"]
              /\ UNCHANGED <<rep, result>>

\* mutant: the error of the blob push is dropped and the manifest pushed
AfterConfigPushDropsBlobError(p, e) ==
    IF e # NoErr /\ site[p] = "manifest"
    THEN IF allowFallbacks /\ Fallback(rep[p]) # 0
         THEN /\ rep' = [rep EXCEPT ![p] = Fallback(rep[p])]
              /\ site' = [site EXCEPT ![p] = "blob"]
              /\ pc' = [pc EXCEPT ![p] = "pusher"]
              /\ UNCHANGED <<confDesc, result>>
         ELSE /\ PushReturns(p, EmptyDescriptor, Errorf(ConfigContext, e))
              /\ UNCHANGED confDesc
    ELSE IF site[p] = "blob"
         THEN /\ site' = [site EXCEPT ![p] = "manifest"]
              /\ pc' = [pc EXCEPT ![p] = "pusher"]
              /\ UNCHANGED <<rep, confDesc, result>>
         ELSE /\ confDesc' = [confDesc EXCEPT ![p] = ManifestDescriptor(rep[p])]
              /\ site' = [site EXCEPT ![p] = "index"]
              /\ pc' = [pc EXCEPT ![p] = "build"]
              /\ UNCHANGED <<rep, result>>

\* mutant: the error of pushBundleConfig is returned without fmt.Errorf
AfterConfigPushBare(p, e) ==
    IF e # NoErr
    THEN IF allowFallbacks /\ Fallback(rep[p]) # 0
         THEN /\ rep' = [rep EXCEPT ![p] = Fallback(rep[p])]
              /\ site' = [site EXCEPT ![p] = "blob"]
              /\ pc' = [pc EXCEPT ![p] = "pusher"]
              /\ UNCHANGED <<confDesc, result>>
         ELSE /\ PushReturns(p, EmptyDescriptor, e)
              /\ UNCHANGED confDesc
    ELSE IF site[p] = "blob"
         THEN /\ site' = [site EXCEPT ![p] = "manifest"]
              /\ pc' = [pc EXCEPT ![p] = "pusher"]
              /\ UNCHANGED <<rep, confDesc, result>>
         ELSE /\ confDesc' = [confDesc EXCEPT ![p] = ManifestDescriptor(rep[p])]
              /\ site' = [site EXCEPT ![p] = "index"]
              /\ pc' = [pc EXCEPT ![p] = "build"]
              /\ UNCHANGED <<rep, result>>

\* pushBundleConfig after a pushPayload of the blob or of the manifest returned e,
\* and Push's handling of what pushBundleConfig returns (lines 32-36)
AfterConfigPush(p, e) ==
    IF e # NoErr
    THEN IF allowFallbacks /\ Fallback(rep[p]) # 0
         THEN /\ rep' = [rep EXCEPT ![p] = Fallback(rep[p])]
              /\ site' = [site EXCEPT ![p] = "blob"]
              /\ pc' = [pc EXCEPT ![p] = "pusher"]
              /\ UNCHANGED <<confDesc, result>>
         ELSE /\ PushReturns(p, EmptyDescriptor, Errorf(ConfigContext, e))
              /\ UNCHANGED confDesc
    ELSE IF site[p] = "blob"
         THEN /\ site' = [site EXCEPT ![p] = "manifest"]
              /\ pc' = [pc EXCEPT ![p] = "pusher"]
              /\ UNCHANGED <<rep, confDesc, result>>
         ELSE /\ confDesc' = [confDesc EXCEPT ![p] = ManifestDescriptor(rep[p])]
              /\ site' = [site EXCEPT ![p] = "index"]
              /\ pc' = [pc EXCEPT ![p] = "build"]
              /\ UNCHANGED <<rep, result>>

\* mutant: the manifest list is tried whatever allowFallbacks says
AfterIndexPushIgnoresFlag(p, e) ==
    /\ UNCHANGED confDesc
    /\ IF e = NoErr
       THEN PushReturns(p, ixDesc[p], NoErr)
       ELSE IF site[p] = "index"
            THEN /\ site' = [site EXCEPT ![p] = "list"]
                 /\ pc' = [pc EXCEPT ![p] = "build"]
                 /\ UNCHANGED <<rep, result>>
            ELSE PushReturns(p, EmptyDescriptor, e)

\* Push after the pushPayload of the index (line 49) or of the manifest list
\* (line 62) returned e
AfterIndexPush(p, e) ==
    /\ UNCHANGED confDesc
    /\ IF e = NoErr
       THEN PushReturns(p, ixDesc[p], NoErr)
       ELSE IF site[p] = "index" /\ allowFallbacks
            THEN /\ site' = [site EXCEPT ![p] = "list"]
                 /\ pc' = [pc EXCEPT ![p] = "build"]
                 /\ UNCHANGED <<rep, result>>
            ELSE PushReturns(p, EmptyDescriptor, e)

\* pushPayload returns e to its caller; step and signal say where the transport
\* answered and what
PayloadReturns(p, e, step, signal) ==
    /\ log' = [log EXCEPT ![p] = Append(@, [site |-> site[p], desc |-> PayloadDescriptor(p),
                                            err |-> e, signal |-> signal])]
    /\ lastStep' = [lastStep EXCEPT ![p] = step]
    /\ IF site[p] \in {"blob", "manifest"}
       THEN AfterConfigPush(p, e)
       ELSE AfterIndexPush(p, e)

\* mutant: already-exists is returned as any other error
AbsorbNothing(signal, s) == IF signal # "ok" THEN TransportErr(s) ELSE NoErr

\* mutant: already-exists is absorbed at the config sites only
AbsorbAtConfigOnly(signal, s) ==
    IF signal = "err" \/ (signal = "exists" /\ s \in {"index", "list"})
    THEN TransportErr(s) ELSE NoErr

\* errors.Cause(err) == errdefs.ErrAlreadyExists: nil is returned
Absorb(signal, s) == IF signal = "err" THEN TransportErr(s) ELSE NoErr

\* mutant: the writer is never closed
CloseSinkForgotten(p) == UNCHANGED openSinks

\* deferred writer.Close()
CloseSink(p) == openSinks' = [openSinks EXCEPT ![p] = @ - 1]

inputs == <<allowFallbacks, chainLen, convertOK, nOptions, fallible, registry>>

\* ---- the steps of one Push call

\* converter.CreateBundleConfig(b).PrepareForPush(), then the first pushBundleConfig
PrepareForPush(p) ==
    /\ pc[p] = "prepare"
    /\ IF chainLen = 0
       THEN PushReturns(p, EmptyDescriptor, ConversionErr("prepare"))
       ELSE /\ rep' = [rep EXCEPT ![p] = 1]
            /\ site' = [site EXCEPT ![p] = "blob"]
            /\ pc' = [pc EXCEPT ![p] = "pusher"]
            /\ UNCHANGED result
    /\ UNCHANGED <<inputs, store, confDesc, ixDesc, openSinks, log, lastStep, optLog, scopeVars>>

\* pushPayload: resolver.Pusher(ctx, reference)
ResolvePusher(p) ==
    /\ pc[p] = "pusher"
    /\ \E a \in PusherAnswers :
          IF a = "ok"
          THEN /\ pc' = [pc EXCEPT ![p] = "acquire"]
               /\ UNCHANGED <<site, rep, confDesc, result, log, lastStep>>
          ELSE PayloadReturns(p, TransportErr(site[p]), "pusher", a)
    /\ UNCHANGED <<inputs, store, ixDesc, openSinks, optLog, scopeVars>>

\* pushPayload: pusher.Push(ctx, descriptor)
AcquireSink(p) ==
    /\ pc[p] = "acquire"
    /\ \E a \in SinkAnswers(PayloadDescriptor(p).digest) :
          IF a = "ok"
          THEN /\ pc' = [pc EXCEPT ![p] = "write"]
               /\ openSinks' = [openSinks EXCEPT ![p] = @ + 1]
               /\ UNCHANGED <<site, rep, confDesc, result, log, lastStep>>
          ELSE /\ PayloadReturns(p, Absorb(a, site[p]), "acquire", a)
               /\ UNCHANGED openSinks
    /\ UNCHANGED <<inputs, store, ixDesc, optLog, scopeVars>>

\* pushPayload: writer.Write(payload)
WriteSink(p) ==
    /\ pc[p] = "write"
    /\ \E a \in SinkAnswers(PayloadDescriptor(p).digest) :
          IF a = "ok"
          THEN /\ pc' = [pc EXCEPT ![p] = "commit"]
               /\ UNCHANGED <<site, rep, confDesc, result, log, lastStep, openSinks>>
          ELSE /\ PayloadReturns(p, Absorb(a, site[p]), "write", a)
               /\ CloseSink(p)
    /\ UNCHANGED <<inputs, store, ixDesc, optLog, scopeVars>>

\* pushPayload: writer.Commit(ctx, size, digest)
CommitSink(p) ==
    /\ pc[p] = "commit"
    /\ \E a \in SinkAnswers(PayloadDescriptor(p).digest) :
          /\ PayloadReturns(p, Absorb(a, site[p]), "commit", a)
          /\ store' = IF a = "ok" THEN store \cup {PayloadDescriptor(p).digest} ELSE store
    /\ CloseSink(p)
    /\ UNCHANGED <<inputs, ixDesc, optLog, scopeVars>>

\* mutant: the loop over the options goes on after a callback failed
InvokedAll(f) == nOptions

\* the callbacks convertIndexAndApplyOptions runs when the first to fail is f
\* (0: none fails)
Invoked(f) == IF f = 0 THEN nOptions ELSE f

\* prepareIndex (site "index") and prepareIndexNonOCI (site "list"), both through
\* convertIndexAndApplyOptions
PrepareIndex(p) ==
    /\ pc[p] = "build"
    /\ IF ~convertOK
       THEN /\ PushReturns(p, EmptyDescriptor, ConversionErr(site[p]))
            /\ UNCHANGED <<ixDesc, optLog>>
       ELSE \E f \in {0} \cup fallible :
               /\ optLog' = [optLog EXCEPT ![p] =
                                @ \o [i \in 1..Invoked(f) |-> [option |-> i, failed |-> i = f]]]
               /\ IF f # 0
                  THEN /\ PushReturns(p, EmptyDescriptor, Errorf(OptionContext, OptionErr))
                       /\ UNCHANGED ixDesc
                  ELSE /\ ixDesc' = [ixDesc EXCEPT ![p] = IndexDescriptor(site[p], confDesc[p])]
                       /\ pc' = [pc EXCEPT ![p] = "pusher"]
                       /\ UNCHANGED <<site, rep, result>>
    /\ UNCHANGED <<inputs, store, confDesc, openSinks, log, lastStep, scopeVars>>

\* ================================================================ scopes

\* strings are sequences of characters
PullAction == <<"p", "u", "l", "l">>
PushAction == <<"p", "u", "s", "h">>
Actions == {PullAction, PushAction}
\* "r:f" and "r:f/b", standing for "repository:foo" and "repository:foo/bar"
ResFoo == <<"r", ":", "f">>
ResFooBar == <<"r", ":", "f", "/", "b">>
Resources == {ResFoo, ResFooBar}

\* the tokenScopes variables of the program
SetIds == {"A", "B", "C"}
\* the two of them the operations on sets are called on (C is used by the
\* contexts only)
Pair == {"A", "B"}

\* addresses of action maps: one per token that can be held, and one for the
\* token an add is called with
Addrs == 1..(Cardinality(SetIds) * Cardinality(Resources) + 1)

\* a tokenScopes value: nil, or a map from resource to tokenScope; a tokenScope is
\* held by value, its actions map by reference (an address of the heap); the key
\* of a token is its resource (add and clone store it so)
NoTokens == [r \in {} |-> 0]
NilScopes == [nil |-> TRUE, toks |-> NoTokens]
EmptyScopes == [nil |-> FALSE, toks |-> NoTokens]

\* the maps a memory holds: its tokenScopes variables and the heap of action maps
Referenced(ss, ids) == UNION {{ss[s].toks[r] : r \in DOMAIN ss[s].toks} : s \in ids}

\* the lowest of the addresses outside `used`
Fresh(used) == CHOOSE a \in Addrs \ used : \A b \in Addrs \ used : a <= b

\* the places that can hold a token, in a fixed order
Slots == <<<<"A", ResFoo>>, <<"A", ResFooBar>>, <<"B", ResFoo>>, <<"B", ResFooBar>>,
          <<"C", ResFoo>>, <<"C", ResFooBar>>>>

\* slot i holds a token, and the address of its actions map
Occupied(ss, i) == Slots[i][2] \in DOMAIN ss[Slots[i][1]].toks
At(ss, i) == ss[Slots[i][1]].toks[Slots[i][2]]

\* slot i is the first slot that holds its map
IsFirst(ss, i) == \A j \in 1..(i - 1) : ~(Occupied(ss, j) /\ At(ss, j) = At(ss, i))

\* the first slot that holds the map at address a
FirstSlot(ss, a) ==
    CHOOSE i \in 1..Len(Slots) : Occupied(ss, i) /\ At(ss, i) = a /\ IsFirst(ss, i)

\* addresses carry no meaning: unreferenced maps are collected and every live map
\* is moved to the address that is the number of the first slot holding it, so
\* that two memories that differ only in their addresses are one state
CollectSets(ss) ==
    [s \in SetIds |->
        [ss[s] EXCEPT !.toks = [r \in DOMAIN ss[s].toks |-> FirstSlot(ss, ss[s].toks[r])]]]

CollectHeap(ss, h) ==
    [a \in Addrs |->
        IF a <= Len(Slots) /\ Occupied(ss, a) /\ IsFirst(ss, a) THEN h[At(ss, a)] ELSE {}]

\* a tokenScopes value with every actions map read: resource -> set of actions
View(ss, h, s) ==
    [nil |-> ss[s].nil, toks |-> [r \in DOMAIN ss[s].toks |-> h[ss[s].toks[r]]]]

\* m[k] = v on a Go map held as a function
Put(m, k, v) == [x \in DOMAIN m \cup {k} |-> IF x = k THEN v ELSE m[x]]

\* mutant: a token without actions is not inserted
addSkipsEmpty(mem, s, resource, a) ==
    IF mem.panic \/ mem.heap[a] = {} THEN mem
    ELSE IF resource \notin DOMAIN mem.sets[s].toks
    THEN IF mem.sets[s].nil
         THEN [mem EXCEPT !.panic = TRUE]
         ELSE [mem EXCEPT !.sets[s].toks = Put(@, resource, a)]
    ELSE [mem EXCEPT !.heap[mem.sets[s].toks[resource]] = @ \cup mem.heap[a]]

\* tokenScopes.add on the variable s of memory mem, with a token whose actions map
\* is at address a. An assignment to an entry of a nil map panics.
add(mem, s, resource, a) ==
    IF mem.panic THEN mem
    ELSE IF resource \notin DOMAIN mem.sets[s].toks
    THEN IF mem.sets[s].nil
         THEN [mem EXCEPT !.panic = TRUE]
         ELSE [mem EXCEPT !.sets[s].toks = Put(@, resource, a)]
    ELSE [mem EXCEPT !.heap[mem.sets[s].toks[resource]] = @ \cup mem.heap[a]]

\* tokenScopes.merge: add for every token of other, those in `todo` still to come
RECURSIVE mergeFrom(_, _, _, _)
mergeFrom(mem, s, other, todo) ==
    IF todo = {} THEN mem
    ELSE LET k == CHOOSE x \in todo : TRUE
         IN  mergeFrom(add(mem, s, k, mem.sets[other].toks[k]), s, other, todo \ {k})

merge(mem, s, other) == mergeFrom(mem, s, other, DOMAIN mem.sets[other].toks)

\* mutant: the actions are not compared
containsResourcesOnly(scopes, other) ==
    IF other.nil THEN TRUE
    ELSE IF scopes.nil THEN FALSE
    ELSE \A k \in DOMAIN other.toks : k \in DOMAIN scopes.toks

\* tokenScopes.contains on values with their action maps read
contains(scopes, other) ==
    IF other.nil THEN TRUE
    ELSE IF scopes.nil THEN FALSE
    ELSE \A k \in DOMAIN other.toks :
            /\ k \in DOMAIN scopes.toks
            /\ \A action \in other.toks[k] : action \in scopes.toks[k]

\* mutant: the clone holds the action maps of the original
cloneFromShared(mem, s, t, todo) ==
    [mem EXCEPT !.sets[t].toks = [k \in todo |-> mem.sets[s].toks[k]]]

\* tokenScopes.clone of the variable s into the variable t: a new actions map per
\* token (tokenScope.clone), nil for nil
RECURSIVE cloneFrom(_, _, _, _)
cloneFrom(mem, s, t, todo) ==
    IF todo = {} THEN mem
    ELSE LET k == CHOOSE x \in todo : TRUE
             a == Fresh(Referenced(mem.sets, SetIds))
             copied == [mem EXCEPT !.heap[a] = mem.heap[mem.sets[s].toks[k]],
                                   !.sets[t].toks = Put(@, k, a)]
         IN  cloneFrom(copied, s, t, todo \ {k})

clone(mem, s, t) ==
    IF mem.sets[s].nil
    THEN [mem EXCEPT !.sets[t] = NilScopes]
    ELSE LET src == mem.sets[s]
             cleared == [mem EXCEPT !.sets[t] = EmptyScopes]
         IN  IF s = t THEN mem
             ELSE cloneFrom(cleared, s, t, DOMAIN src.toks)

\* ---- strings: Go compares and sorts them byte by byte
Ord(c) ==
    CASE c = " " -> 32 [] c = "," -> 44 [] c = "/" -> 47 [] c = ":" -> 58
      [] c = "a" -> 97 [] c = "b" -> 98 [] c = "f" -> 102 [] c = "h" -> 104
      [] c = "l" -> 108 [] c = "p" -> 112 [] c = "r" -> 114 [] c = "s" -> 115
      [] c = "u" -> 117 [] c = "x" -> 120

\* a < b for Go strings
StrLess(a, b) ==
    LET n == IF Len(a) < Len(b) THEN Len(a) ELSE Len(b)
        d == {i \in 1..n : a[i] # b[i]}
    IN  IF d = {} THEN Len(a) < Len(b)
        ELSE LET i == CHOOSE x \in d : \A y \in d : x <= y
             IN  Ord(a[i]) < Ord(b[i])

\* x put at its place in the sorted sequence q
Insert(q, x) ==
    LET k == Cardinality({i \in 1..Len(q) : ~StrLess(x, q[i])})
    IN  SubSeq(q, 1, k) \o <<x>> \o SubSeq(q, k + 1, Len(q))

\* mutant: the slice is returned as the map was ranged over
SortStringsSkipped(q) == q

\* sort.Strings
RECURSIVE SortStrings(_)
SortStrings(q) == IF q = <<>> THEN <<>> ELSE Insert(SortStrings(Tail(q)), Head(q))

\* strings.Join
RECURSIVE Join(_, _)
Join(q, sep) ==
    IF q = <<>> THEN <<>>
    ELSE IF Len(q) = 1 THEN q[1]
    ELSE q[1] \o sep \o Join(Tail(q), sep)

\* the orders a range over a Go map may take: every sequence of all its keys
Orders(S) == {q \in [1..Cardinality(S) -> S] : \A i, j \in 1..Cardinality(S) : i # j => q[i] # q[j]}

\* the keys of `keys` in the order `order` ranges over them
RECURSIVE Ranged(_, _)
Ranged(order, keys) ==
    IF order = <<>> THEN <<>>
    ELSE IF Head(order) \in keys THEN <<Head(order)>> \o Ranged(Tail(order), keys)
    ELSE Ranged(Tail(order), keys)

\* tokenScope.String, the actions map ranged over in the order ao
String(resource, actions, ao) ==
    resource \o <<":">> \o Join(SortStrings(Ranged(ao, actions)), <<",">>)

\* tokenScopes.flatten on a value with its action maps read, the map ranged over
\* in the order ro and every actions map in the order ao; nil gives the nil slice
flatten(scopes, ro, ao) ==
    LET keys == Ranged(ro, DOMAIN scopes.toks)
    IN  SortStrings([i \in 1..Len(keys) |-> String(keys[i], scopes.toks[keys[i]], ao)])

\* the first occurrence of the character c in str, counted from 1 (0: none)
Index(str, c) ==
    IF \E i \in 1..Len(str) : str[i] = c
    THEN CHOOSE i \in 1..Len(str) : str[i] = c /\ \A j \in 1..(i - 1) : str[j] # c
    ELSE 0

\* mutant: the first ":" is taken for the separator
LastIndexIsFirst(str, c) == Index(str, c)

\* strings.LastIndex for a separator of one character, counted from 1 (0: none)
LastIndex(str, c) ==
    IF \E i \in 1..Len(str) : str[i] = c
    THEN CHOOSE i \in 1..Len(str) : str[i] = c /\ \A j \in (i + 1)..Len(str) : str[j] # c
    ELSE 0

\* strings.Split for a separator of one character: the pieces between its
\* occurrences, one empty piece for the empty string
RECURSIVE Split(_, _)
Split(str, c) ==
    LET i == Index(str, c)
    IN  IF i = 0 THEN <<str>>
        ELSE <<SubSeq(str, 1, i - 1)>> \o Split(SubSeq(str, i + 1, Len(str)), c)

\* a tokenScope by value (its actions read), and what parseTokenScope returns
Token(resource, actions) == [resource |-> resource, actions |-> actions]
NoToken == Token(<<>>, {})
Parsed(token) == [err |-> FALSE, token |-> token]
NotAValidTokenScope == [err |-> TRUE, token |-> NoToken]

\* parseTokenScope
parseTokenScope(str) ==
    LET lastSep == LastIndex(str, ":")
        as == Split(SubSeq(str, lastSep + 1, Len(str)), ",")
    IN  IF lastSep = 0 THEN NotAValidTokenScope
        ELSE Parsed(Token(SubSeq(str, 1, lastSep - 1), {as[i] : i \in 1..Len(as)}))

\* ---- contexts: a context is held as the tokenScopes value it carries under
\* tokenScopesKey, nil when it carries none (getContextScopes)

\* "r:" stands for "repository:"
RepositoryPrefix == <<"r", ":">>

\* the Path of url.Parse("dummy://" + locator): what follows the host
Path(locator) ==
    LET i == Index(locator, "/")
    IN  IF i = 0 THEN <<>> ELSE SubSeq(locator, i, Len(locator))

\* strings.TrimPrefix for a prefix of one character
TrimPrefix(str, c) == IF str # <<>> /\ str[1] = c THEN Tail(str) ELSE str

\* url.Parse fails on a "%" that starts no escape
InvalidURLEscape == [err |-> TRUE, token |-> NoToken]

\* mutant: push is granted whatever the flag
repositoryScopeAlwaysPush(locator, push) ==
    IF Index(locator, "%") # 0 THEN InvalidURLEscape
    ELSE Parsed(Token(RepositoryPrefix \o TrimPrefix(Path(locator), "/"),
                      {PullAction, PushAction}))

\* repositoryScope
repositoryScope(locator, push) ==
    IF Index(locator, "%") # 0 THEN InvalidURLEscape
    ELSE Parsed(Token(RepositoryPrefix \o TrimPrefix(Path(locator), "/"),
                      {PullAction} \cup (IF push THEN {PushAction} ELSE {})))

\* contextWithRepositoryScope once repositoryScope returned ts: the scopes of the
\* context s are cloned into the new context t, an empty set is made when there
\* are none, and ts is added
contextWithRepositoryScope(mem, s, t, ts) ==
    LET cloned == clone(mem, s, t)
        scopes == IF cloned.sets[t].nil THEN [cloned EXCEPT !.sets[t] = EmptyScopes]
                  ELSE cloned
        a == Fresh(Referenced(scopes.sets, SetIds))
    IN  add([scopes EXCEPT !.heap[a] = ts.actions], t, ts.resource, a)

\* the set getTokenScopes builds and returns is held by no variable of the
\* program: it is the variable Result of a memory of its own, with one more
\* address per token of the parameter
Result == "R"
ScratchAddrs(n) == (Cardinality(Addrs) + 1)..(Cardinality(Addrs) + n)
Scratch(mem, n) ==
    [mem EXCEPT !.sets = [x \in SetIds \cup {Result} |->
                             IF x = Result THEN EmptyScopes ELSE mem.sets[x]],
                !.heap = [a \in Addrs \cup ScratchAddrs(n) |->
                             IF a \in Addrs THEN mem.heap[a] ELSE {}]]

\* getTokenScopes: the loop over paramScopes from its i-th token on
RECURSIVE addParsed(_, _, _)
addParsed(mem, paramScopes, i) ==
    IF i > Len(paramScopes) THEN [err |-> FALSE, mem |-> mem]
    ELSE LET parsedScope == parseTokenScope(paramScopes[i])
             a == Cardinality(Addrs) + i
         IN  IF parsedScope.err THEN [err |-> TRUE, mem |-> mem]
             ELSE addParsed(add([mem EXCEPT !.heap[a] = parsedScope.token.actions],
                                Result, parsedScope.token.resource, a),
                            paramScopes, i + 1)

\* the tokens of params["scope"]; none when params is nil or has no such key
ParamScopes(params) == IF params.has THEN Split(params.scope, " ") ELSE <<>>

\* what getTokenScopes returns, with the scopes of the context as they are when
\* it returns and whether the returned set holds an actions map of the context
Returned(err, mem, s) ==
    [err |-> err,
     scopes |-> IF err THEN NilScopes ELSE View(mem.sets, mem.heap, Result),
     ambient |-> View(mem.sets, mem.heap, s),
     shared |-> ~err /\ \E r \in DOMAIN mem.sets[Result].toks \cap DOMAIN mem.sets[s].toks :
                          mem.sets[Result].toks[r] = mem.sets[s].toks[r]]

\* mutant: the scopes of the context are left out
getTokenScopesOfParams(mem, s, params) ==
    LET paramScopes == ParamScopes(params)
        added == addParsed(Scratch(mem, Len(paramScopes)), paramScopes, 1)
    IN  Returned(added.err, added.mem, s)

\* getTokenScopes(ctx, params) for the context s
getTokenScopes(mem, s, params) ==
    LET paramScopes == ParamScopes(params)
        added == addParsed(Scratch(mem, Len(paramScopes)), paramScopes, 1)
    IN  IF added.err THEN Returned(TRUE, added.mem, s)
        ELSE IF mem.sets[s].nil THEN Returned(FALSE, added.mem, s)
        ELSE Returned(FALSE, merge(added.mem, Result, s), s)

Memory == [sets |-> sets, heap |-> heap, panic |-> panicked]

Op(name, recv, arg, ret) == [op |-> name, recv |-> recv, param |-> arg, ret |-> ret]
NoOp == Op("none", "A", "A", FALSE)

\* what is remembered of the calls: the original (src) and the clone (dst) of the
\* last clone and the one of them add and merge were called on since ("none":
\* neither yet); "ready" when no clone was made yet or add and merge were called
\* on both since; "off" when the calls are not followed
NoTrack(side) == [src |-> "A", dst |-> "A", side |-> side]

Tracked(op) ==
    IF track.side = "off" THEN track
    ELSE IF op.op = "clone" THEN [src |-> op.recv, dst |-> op.param, side |-> "none"]
    ELSE IF track.side = "ready" THEN track
    ELSE LET on == IF op.recv = track.dst THEN "dst" ELSE "src"
         IN  IF track.side \in {"none", on} THEN [track EXCEPT !.side = on]
             ELSE NoTrack("ready")

\* the memory after an operation, and what the operation was
Becomes(mem, op) ==
    \E m \in {mem} :
        /\ sets' = CollectSets(m.sets)
        /\ heap' = CollectHeap(m.sets, m.heap)
        /\ panicked' = m.panic
        /\ last' = op
        /\ track' = Tracked(op)

\* an operation that only reads the memory
Reads(op) ==
    /\ last' = op
    /\ UNCHANGED <<sets, heap, panicked, track>>

\* ---- the operations of the scope program

\* s.add(ts) with a token just built (repositoryScope, parseTokenScope or a
\* literal): its actions map is new
Add(s, resource, actions) ==
    /\ ~panicked
    /\ \E a \in {Fresh(Referenced(sets, SetIds))} :
          \E built \in {[Memory EXCEPT !.heap[a] = actions]} :
             Becomes(add(built, s, resource, a),
                     Op("add", s, [resource |-> resource, actions |-> actions], FALSE))
    /\ UNCHANGED pushVars

\* s.merge(other)
Merge(s, other) ==
    /\ ~panicked
    /\ Becomes(merge(Memory, s, other), Op("merge", s, other, FALSE))
    /\ UNCHANGED pushVars

\* s.contains(other)
Contains(s, other) ==
    /\ ~panicked
    /\ Reads(Op("contains", s, other,
                   contains(View(sets, heap, s), View(sets, heap, other))))
    /\ UNCHANGED pushVars

\* s.flatten()
Flatten(s) ==
    /\ ~panicked
    /\ \E ro \in Orders(Resources), ao \in Orders(Actions) :
          Reads(Op("flatten", s, s, flatten(View(sets, heap, s), ro, ao)))
    /\ UNCHANGED pushVars

\* t = s.clone()
Clone(s, t) ==
    /\ ~panicked
    /\ s # t
    /\ Becomes(clone(Memory, s, t), Op("clone", s, t, FALSE))
    /\ UNCHANGED pushVars

\* ---- the operations on contexts

\* t, err = contextWithRepositoryScope(s, refspec, push), refspec.Locator = locator
ContextWithRepositoryScope(s, t, locator, push) ==
    /\ ~panicked
    /\ s # t
    /\ LET ts == repositoryScope(locator, push)
           call == [child |-> t, locator |-> locator, push |-> push]
       IN  IF ts.err
           THEN Reads(Op("contextWithRepositoryScope", s, call, TRUE))
           ELSE Becomes(contextWithRepositoryScope(Memory, s, t, ts.token),
                        Op("contextWithRepositoryScope", s, call, FALSE))
    /\ UNCHANGED pushVars

\* getTokenScopes(s, params)
GetTokenScopes(s, params) ==
    /\ ~panicked
    /\ Reads(Op("getTokenScopes", s, params, getTokenScopes(Memory, s, params)))
    /\ UNCHANGED pushVars

\* ---- tokens written and read back

\* parseTokenScope(str)
ParseTokenScope ==
    /\ last.op = "input"
    /\ Reads(Op("parseTokenScope", last.param, last.param, parseTokenScope(last.param)))
    /\ UNCHANGED pushVars

\* ts.String() of the token parsed or built, its actions map ranged over in any
\* order
TokenString ==
    /\ \/ last.op = "parseTokenScope" /\ ~last.ret.err
       \/ last.op = "built"
    /\ \E ao \in Orders(last.ret.token.actions) :
          Reads(Op("String", last.ret.token, last.ret.token,
                   String(last.ret.token.resource, last.ret.token.actions, ao)))
    /\ UNCHANGED pushVars

\* parseTokenScope(ts.String())
ParseBack ==
    /\ last.op = "String"
    /\ Reads(Op("parsed back", last.recv, last.ret, parseTokenScope(last.ret)))
    /\ UNCHANGED pushVars

\* ---- the scope program at rest (the Push specifications leave it alone)
ScopeIdle ==
    /\ heap = [a \in Addrs |-> {}]
    /\ sets = [s \in SetIds |-> NilScopes]
    /\ last = NoOp
    /\ panicked = FALSE
    /\ track = NoTrack("off")

CallInit(running) ==
    /\ pc = [p \in Procs |-> IF p \in running THEN "prepare" ELSE "off"]
    /\ site = [p \in Procs |-> "none"]
    /\ rep = [p \in Procs |-> 0]
    /\ confDesc = [p \in Procs |-> EmptyDescriptor]
    /\ ixDesc = [p \in Procs |-> EmptyDescriptor]
    /\ openSinks = [p \in Procs |-> 0]
    /\ result = [p \in Procs |-> [desc |-> EmptyDescriptor, err |-> NoErr]]
    /\ log = [p \in Procs |-> <<>>]
    /\ lastStep = [p \in Procs |-> "none"]
    /\ optLog = [p \in Procs |-> <<>>]

\* one Push call, any bundle, callbacks that may each fail at any invocation, a
\* transport that answers anything
Init ==
    /\ allowFallbacks \in BOOLEAN
    /\ chainLen \in 0..MaxChain
    /\ convertOK \in BOOLEAN
    /\ nOptions \in 0..MaxOptions
    /\ fallible = 1..nOptions
    /\ registry = "any"
    /\ store = {}
    /\ CallInit({1})
    /\ ScopeIdle

\* the next step of the Push call p
Step(p) ==
    \/ PrepareForPush(p)
    \/ ResolvePusher(p)
    \/ AcquireSink(p)
    \/ WriteSink(p)
    \/ CommitSink(p)
    \/ PrepareIndex(p)

Next == \E p \in Procs : Step(p)

Spec == Init /\ [][Next]_vars

\* two Push calls of one convertible bundle to one reference, callbacks that do
\* not fail, against a registry that stores every accepted payload by digest and
\* answers already-exists for content it holds
RaceInit ==
    /\ allowFallbacks \in BOOLEAN
    /\ chainLen \in 1..MaxChain
    /\ convertOK = TRUE
    /\ nOptions \in 0..MaxOptions
    /\ fallible = {}
    /\ registry = "cas"
    /\ store = {}
    /\ CallInit({1, 2})
    /\ ScopeIdle

RaceSpec == RaceInit /\ [][Next]_vars

\* ================================================== properties of Push

ConfigSites == {"blob", "manifest"}
TopSites == {"index", "list"}

\* the call is inside pushPayload
InPush(p) == pc[p] \in {"pusher", "acquire", "write", "commit"}

\* positions in the log of the pushPayload calls made at the sites S
Entries(p, S) == {i \in 1..Len(log[p]) : log[p][i].site \in S}

\* pushPayload calls made at the sites S, the running one included
Attempts(p, S) ==
    Cardinality(Entries(p, S)) + (IF InPush(p) /\ site[p] \in S THEN 1 ELSE 0)

\* the representation a config push was about
RepOf(entry) == entry.desc.digest.rep

\* the pushPayload call that follows entry i is at site s with descriptor d
FollowedBy(p, i, s, d) ==
    IF i < Len(log[p])
    THEN log[p][i + 1].site = s /\ log[p][i + 1].desc = d
    ELSE InPush(p) /\ site[p] = s /\ PayloadDescriptor(p) = d

\* C1: a failed config blob or config manifest push restarts the blob-then-manifest
\* sequence on the fallback when allowFallbacks holds and there is a fallback, and
\* otherwise ends Push with that error (wrapped) and no index push; the
\* representations are tried in chain order, each once: at most one blob and one
\* manifest push per representation.
C1_ConfigFallbackChain ==
    \A p \in Procs :
        LET L == log[p] IN
        /\ \A i \in Entries(p, ConfigSites) :
              L[i].err # NoErr =>
                 IF allowFallbacks /\ RepOf(L[i]) < chainLen
                 THEN FollowedBy(p, i, "blob", ConfigBlobDescriptor(RepOf(L[i]) + 1))
                 ELSE /\ i = Len(L)
                      /\ pc[p] = "done"
                      /\ result[p] = [desc |-> EmptyDescriptor,
                                      err |-> Errorf(ConfigContext, L[i].err)]
        /\ \A i, j \in Entries(p, ConfigSites) :
              i < j => /\ RepOf(L[i]) <= RepOf(L[j])
                       /\ L[i].desc # L[j].desc
        /\ \A r \in 1..MaxChain + 1 :
              Cardinality({i \in Entries(p, ConfigSites) : RepOf(L[i]) = r}) <= 2
        /\ Attempts(p, ConfigSites) <= 2 * chainLen

\* C1 witness: the manifest of the first representation failed, the fallback's blob
\* was pushed and failed too, at the end of the chain
C1_Witness ==
    /\ Len(log[1]) = 3
    /\ log[1][2].site = "manifest" /\ log[1][2].err # NoErr
    /\ log[1][3].site = "blob" /\ RepOf(log[1][3]) = 2 /\ log[1][3].err # NoErr
    /\ pc[1] = "done"

\* C2: an already-exists answer at pusher.Push, Write or Commit makes pushPayload
\* return nil at every site; the protocol goes on as after an accepted push: the
\* manifest of the same representation follows its blob, the index is built on the
\* manifest descriptor of that representation, Push returns the index descriptor it
\* computed; two already-exists answers at the head of the chain give the manifest
\* descriptor of the first representation.
C2_AlreadyExistsIsSuccess ==
    \A p \in Procs :
        LET L == log[p] IN
        /\ \A i \in 1..Len(L) :
              L[i].signal = "exists" =>
                 /\ L[i].err = NoErr
                 /\ L[i].site = "blob" =>
                       FollowedBy(p, i, "manifest", ManifestDescriptor(RepOf(L[i])))
                 /\ L[i].site = "manifest" =>
                       /\ confDesc[p] = L[i].desc
                       /\ Entries(p, ConfigSites) \subseteq 1..i
                       /\ rep[p] = RepOf(L[i])
                 /\ L[i].site \in TopSites =>
                       /\ i = Len(L)
                       /\ pc[p] = "done"
                       /\ result[p] = [desc |-> L[i].desc, err |-> NoErr]
        /\ (Len(L) >= 2 /\ L[1].signal = "exists" /\ L[2].signal = "exists") =>
              confDesc[p] = ManifestDescriptor(1)
        /\ (Len(L) >= 1 /\ L[Len(L)].signal = "exists") =>
              lastStep[p] \in {"acquire", "write", "commit"}

\* C2 witness: blob, manifest and index were all reported as already present, the
\* last of them at Commit, with a fallback representation at hand
C2_Witness ==
    /\ chainLen = 2 /\ allowFallbacks
    /\ Len(log[1]) = 3
    /\ \A i \in 1..3 : log[1][i].signal = "exists"
    /\ lastStep[1] = "commit"
    /\ pc[1] = "done"

\* the OCI index push returned an error
IndexRejected(p) == \E i \in Entries(p, {"index"}) : log[p][i].err # NoErr

\* C3 as stated: a manifest-list push attempt is made if and only if the OCI index
\* push failed and allowFallbacks is true (read when Push has returned)
C3_ListIffRejectedAndAllowed ==
    \A p \in Procs :
        pc[p] = "done" =>
           (Attempts(p, {"list"}) > 0 <=> (IndexRejected(p) /\ allowFallbacks))

\* C3 amended: a manifest-list push attempt is made only if the OCI index push
\* failed and allowFallbacks is true, and is then made unless rebuilding the index
\* as a manifest list fails (a callback returns an error on its second run), in
\* which case Push returns that error; at most one manifest-list push and at most
\* two top-level pushes are made; with allowFallbacks false a rejected OCI index
\* ends Push with the transport error.
C3_ListOnlyAfterRejection ==
    \A p \in Procs :
        /\ Attempts(p, {"list"}) > 0 => (IndexRejected(p) /\ allowFallbacks)
        /\ (IndexRejected(p) /\ allowFallbacks /\ Attempts(p, {"list"}) = 0) =>
              \/ pc[p] = "build" /\ site[p] = "list"
              \/ /\ pc[p] = "done"
                 /\ result[p] = [desc |-> EmptyDescriptor,
                                 err |-> Errorf(OptionContext, OptionErr)]
        /\ Attempts(p, {"list"}) <= 1
        /\ Attempts(p, {"index"}) <= 1
        /\ Attempts(p, TopSites) <= 2
        /\ (IndexRejected(p) /\ ~allowFallbacks) =>
              /\ pc[p] = "done"
              /\ result[p] = [desc |-> EmptyDescriptor, err |-> TransportErr("index")]
              /\ log[p][Len(log[p])].site = "index"

\* C3 witness: the OCI index was rejected and the manifest list was pushed
C3_Witness ==
    /\ IndexRejected(1) /\ allowFallbacks
    /\ Entries(1, {"list"}) # {}
    /\ pc[1] = "done"

\* C4: when Push returns after a top-level push and no index construction failed,
\* it returns what its last top-level push gave: the OCI index descriptor after an
\* accepted (or already present) OCI index, the manifest-list descriptor, of the
\* Docker manifest-list media type, when only the fallback was accepted, the OCI
\* push's error when fallbacks are not allowed, the manifest-list push's error when
\* both failed; every failing Push returns the empty descriptor.
C4_OutcomeIsLastIndexPush ==
    \A p \in Procs :
        pc[p] = "done" =>
           LET L == log[p]
               e == L[Len(L)]
           IN  /\ result[p].err # NoErr => result[p].desc = EmptyDescriptor
               /\ (Entries(p, TopSites) # {}
                   /\ result[p].err.kind \notin {"conversion", "option"}) =>
                     /\ e.site \in TopSites
                     /\ result[p].err = e.err
                     /\ e.err = NoErr =>
                           /\ result[p].desc = e.desc
                           /\ e.desc.digest.rep = confDesc[p].digest.rep
                           /\ e.site = "index" =>
                                 e.desc.mediaType = MediaTypeImageIndex
                           /\ e.site = "list" =>
                                 /\ e.desc.mediaType = MediaTypeDockerSchema2ManifestList
                                 /\ IndexRejected(p)
                     /\ e.err # NoErr =>
                           /\ e.err = TransportErr(e.site)
                           /\ e.site = "index" <=> ~allowFallbacks

\* C4 witness: the OCI index was rejected and the manifest list accepted
C4_Witness ==
    /\ pc[1] = "done"
    /\ IndexRejected(1)
    /\ result[1].err = NoErr
    /\ result[1].desc.mediaType = MediaTypeDockerSchema2ManifestList

\* entries j, j+1 of the log are the accepted (or already present) blob and manifest
\* of representation r, and no push of r failed
ConfigPushed(p, j, r) ==
    LET L == log[p] IN
    /\ j + 1 <= Len(L)
    /\ L[j].site = "blob" /\ L[j].desc = ConfigBlobDescriptor(r) /\ L[j].err = NoErr
    /\ L[j + 1].site = "manifest" /\ L[j + 1].desc = ManifestDescriptor(r)
    /\ L[j + 1].err = NoErr
    /\ \A k \in Entries(p, ConfigSites) : RepOf(L[k]) = r => L[k].err = NoErr

\* the top-level pushes of the call: <<position in the log, descriptor pushed>>
TopPushes(p) ==
    {<<i, log[p][i].desc>> : i \in Entries(p, TopSites)}
    \cup (IF InPush(p) /\ site[p] \in TopSites
          THEN {<<Len(log[p]) + 1, ixDesc[p]>>} ELSE {})

\* C5: every index or manifest list that is pushed comes after the blob and then
\* the manifest of one representation were both pushed with success (accepted or
\* already present), and it references the manifest descriptor of that
\* representation, no push of which failed.
C5_IndexAfterConfigOfSameRep ==
    \A p \in Procs :
        /\ \A t \in TopPushes(p) :
              /\ \E j \in 1..(t[1] - 2) : ConfigPushed(p, j, t[2].digest.rep)
              /\ confDesc[p] = ManifestDescriptor(t[2].digest.rep)
        /\ pc[p] = "build" => \E j \in 1..Len(log[p]) : ConfigPushed(p, j, confDesc[p].digest.rep)

\* C5 witness: the first representation failed at its manifest, the second was
\* pushed, and the index that references the second is being pushed
C5_Witness ==
    /\ Len(log[1]) = 4
    /\ log[1][2].err # NoErr
    /\ InPush(1) /\ site[1] = "index"
    /\ ixDesc[1].digest.rep = 2

\* C6: against the content-addressed registry no push of either call fails, no
\* call leaves the first representation or pushes a manifest list, a call that has
\* not returned can always take its next step whatever the other call did, and
\* every call that has returned succeeded with the OCI index descriptor, the same
\* for all.
C6_RacingPushesAgree ==
    \A p \in Procs :
        /\ \A i \in 1..Len(log[p]) : log[p][i].err = NoErr
        /\ pc[p] # "done" => ENABLED Step(p)
        /\ rep[p] <= 1
        /\ Attempts(p, {"list"}) = 0
        /\ pc[p] = "done" =>
              /\ result[p].err = NoErr
              /\ result[p].desc = IndexDescriptor("index", ManifestDescriptor(1))
              /\ \A q \in Procs : pc[q] = "done" => result[q] = result[p]

\* C6 witness: both calls have returned and each of them found a payload the other
\* had stored first
C6_Witness ==
    /\ \A p \in Procs : pc[p] = "done"
    /\ \A p \in Procs : \E i \in 1..Len(log[p]) : log[p][i].signal = "exists"
    /\ \A p \in Procs : \E i \in 1..Len(log[p]) : log[p][i].signal = "ok"

\* C7 as stated: every transport error Push returns carries a context
C7_TransportErrorsWrapped ==
    \A p \in Procs :
        (pc[p] = "done" /\ result[p].err.kind = "transport") =>
           result[p].err.context # ""

\* C7 amended: a transport error of the config stage (blob or manifest) is
\* returned inside the context "error while pushing bundle config manifest", the
\* same for both payloads; a transport error of the OCI index push or of the
\* manifest-list push is returned as the transport gave it.
C7_OnlyConfigErrorsWrapped ==
    \A p \in Procs :
        (pc[p] = "done" /\ result[p].err.kind = "transport") =>
           /\ result[p].err.site \in ConfigSites =>
                 result[p].err.context = ConfigContext
           /\ result[p].err.site \in TopSites =>
                 result[p].err.context = ""

\* C7 witness: Push returned the error of a failed config blob push
C7_Witness ==
    /\ pc[1] = "done"
    /\ result[1].err.kind = "transport"
    /\ result[1].err.site = "blob"

\* ---- the specification of the scope program: every variable starts nil or
\* empty, and any operation may follow any other
\* no Push call is made
PushIdle ==
    /\ allowFallbacks = FALSE
    /\ chainLen = 0
    /\ convertOK = FALSE
    /\ nOptions = 0
    /\ fallible = {}
    /\ registry = "any"
    /\ store = {}
    /\ CallInit({})

ScopeStart(tracking) ==
    /\ heap = [a \in Addrs |-> {}]
    /\ sets \in {f \in [SetIds -> {NilScopes, EmptyScopes}] :
                    \A s \in SetIds \ Pair : f[s] = NilScopes}
    /\ last = NoOp
    /\ panicked = FALSE
    /\ track = NoTrack(tracking)
    /\ PushIdle

ScopeInit == ScopeStart("off")

ScopeNext ==
    \/ \E s \in Pair, r \in Resources, acts \in SUBSET Actions : Add(s, r, acts)
    \/ \E s, t \in Pair : Merge(s, t)
    \/ \E s, t \in Pair : Contains(s, t)
    \/ \E s, t \in Pair : Clone(s, t)
    \/ \E s \in Pair : Flatten(s)

ScopeSpec == ScopeInit /\ [][ScopeNext]_vars

\* ---- tokens: a token is parsed from a string (any string of up to MaxInput
\* characters of Alphabet) or built by repositoryScope and the unions of add
MaxInput == 4
Alphabet == {":", ",", "a", "b"}
Inputs == UNION {[1..n -> Alphabet] : n \in 0..MaxInput}
Built == {Token(r, acts) : r \in Resources, acts \in (SUBSET Actions) \ {{}}}

ParseInit ==
    /\ heap = [a \in Addrs |-> {}]
    /\ sets = [s \in SetIds |-> NilScopes]
    /\ panicked = FALSE
    /\ track = NoTrack("off")
    /\ PushIdle
    /\ \/ \E str \in Inputs : last = Op("input", str, str, Parsed(NoToken))
       \/ \E ts \in Built : last = Op("built", ts, ts, Parsed(ts))

ParseNext ==
    \/ ParseTokenScope
    \/ TokenString
    \/ ParseBack

ParseSpec == ParseInit /\ [][ParseNext]_vars

\* ---- contexts: A is the context the program starts from, with no scopes or
\* an empty set; B is derived from A; C is derived from A or from B; the scopes
\* of any of them are asked for with any of Params
Locators == {<<"h", "/", "f">>, <<"h", "/", "f", "/", "b">>, <<"h", "%">>}
Derivations == {<<"A", "B">>, <<"A", "C">>, <<"B", "C">>}

\* the tokens of a scope parameter: push and pull on "r:f", and one without ":"
ParamTokens == {ResFoo \o <<":">> \o PushAction, ResFoo \o <<":">> \o PullAction, <<"a", "b">>}
NoParams == [has |-> FALSE, scope |-> <<>>]
Params ==
    {NoParams, [has |-> TRUE, scope |-> <<>>]}
    \cup {[has |-> TRUE, scope |-> x] : x \in ParamTokens}
    \cup {[has |-> TRUE, scope |-> x \o <<" ">> \o y] : x, y \in ParamTokens}

CtxInit ==
    /\ heap = [a \in Addrs |-> {}]
    /\ sets \in {f \in [SetIds -> {NilScopes, EmptyScopes}] :
                    f["B"] = NilScopes /\ f["C"] = NilScopes}
    /\ last = NoOp
    /\ panicked = FALSE
    /\ track = NoTrack("off")
    /\ PushIdle

CtxNext ==
    \/ \E d \in Derivations, locator \in Locators, push \in BOOLEAN :
          ContextWithRepositoryScope(d[1], d[2], locator, push)
    \/ \E s \in SetIds, params \in Params : GetTokenScopes(s, params)

CtxSpec == CtxInit /\ [][CtxNext]_vars

\* ---- the scope program with its clones followed: add, merge and clone
CloneInit == ScopeStart("ready")

CloneNext ==
    \/ \E s \in Pair, r \in Resources, acts \in SUBSET Actions : Add(s, r, acts)
    \/ \E s, t \in Pair : Merge(s, t)
    \/ \E s, t \in Pair : Clone(s, t)

CloneSpec == CloneInit /\ [][CloneNext]_vars

\* ============================================== properties of the scopes

\* the resources a tokenScopes variable holds; none for nil
ResourcesOf(s) == DOMAIN sets[s].toks
\* the actions it holds for a resource
ActionsOf(s, r) == heap[sets[s].toks[r]]

\* the operation l was `name`, called on s with the argument t
Was(l, name, s, t) == l.op = name /\ l.recv = s /\ l.param = t

C9_ContainsIsSupersetTest ==
    (last.op = "contains" /\ ResourcesOf(last.param) # {}) =>
       /\ last.ret <=>
             \A r \in ResourcesOf(last.param) :
                /\ r \in ResourcesOf(last.recv)
                /\ ActionsOf(last.param, r) \subseteq ActionsOf(last.recv, r)
       /\ sets[last.recv].nil => ~last.ret

\* C9 witness: contains returned true for another set that holds two resources,
\* one of them with both actions
C9_Witness ==
    /\ last.op = "contains" /\ last.recv # last.param /\ last.ret
    /\ ResourcesOf(last.param) = Resources
    /\ \E r \in Resources : ActionsOf(last.param, r) = Actions
    /\ sets[last.recv].toks # sets[last.param].toks

\* C10 as stated: contains returns true whenever the argument is nil or holds no
\* resource, whatever the receiver.
C10_ContainsNilOrEmpty ==
    (last.op = "contains" /\ ResourcesOf(last.param) = {}) => last.ret

\* ======================================== properties of Push, continued

\* C18: a Push call holds at most one open writer, and holds one only between
\* pusher.Push and the return of that pushPayload: none is open when a pushPayload
\* starts (a fallback included), while an index is built, or when Push has
\* returned, whatever way the pushPayload before ended.
C18_SinkClosedOnEveryExit ==
    \A p \in Procs :
        /\ openSinks[p] \in {0, 1}
        /\ openSinks[p] = 1 <=> pc[p] \in {"write", "commit"}

\* C18 witness: Commit failed, the fallback representation is being pushed and no
\* writer is open
C18_Witness ==
    /\ Len(log[1]) >= 1
    /\ log[1][Len(log[1])].err # NoErr
    /\ lastStep[1] = "commit"
    /\ pc[1] = "pusher" /\ rep[1] = 2
    /\ openSinks[1] = 0

\* the callback invocations of one convertIndexAndApplyOptions that ran k callbacks
Run(k) == [i \in 1..k |-> i]

\* the callbacks invoked by the call, in order
OptionsInvoked(p) == [i \in 1..Len(optLog[p]) |-> optLog[p][i].option]

\* C20 as stated: within one Push call every callback is invoked at most once.
C20_EachCallbackAtMostOnce ==
    \A p \in Procs : \A o \in 1..MaxOptions + 1 :
        Cardinality({i \in 1..Len(optLog[p]) : optLog[p][i].option = o}) <= 1

\* C20 amended: every callback is invoked at most once per construction of the
\* index, in the order supplied; the index is constructed once for the OCI index
\* and once more, all callbacks running again, when the OCI index was rejected and
\* fallbacks are allowed; a callback that fails is the last one invoked, and Push
\* then returns its error with no push after it.
C20_CallbacksOncePerConstruction ==
    \A p \in Procs :
        /\ \E k1, k2 \in 0..nOptions :
              /\ OptionsInvoked(p) = Run(k1) \o Run(k2)
              /\ k2 > 0 => (k1 = nOptions /\ IndexRejected(p) /\ allowFallbacks)
        /\ ~IndexRejected(p) =>
              \A o \in 1..nOptions :
                 Cardinality({i \in 1..Len(optLog[p]) : optLog[p][i].option = o}) <= 1
        /\ \A i \in 1..Len(optLog[p]) :
              optLog[p][i].failed =>
                 /\ i = Len(optLog[p])
                 /\ pc[p] = "done"
                 /\ result[p] = [desc |-> EmptyDescriptor,
                                 err |-> Errorf(OptionContext, OptionErr)]
                 /\ Cardinality(Entries(p, TopSites)) = (IF IndexRejected(p) THEN 1 ELSE 0)

\* C20 witness: the OCI index was rejected, the callbacks ran a second time and the
\* second of them failed in that run
C20_Witness ==
    /\ IndexRejected(1)
    /\ nOptions = 2
    /\ Len(optLog[1]) = 4
    /\ optLog[1][4].failed
    /\ pc[1] = "done"

\* ==================================== properties of the scopes, continued

\* a sequence of strings in ascending byte order
IsSorted(q) == \A i, j \in 1..Len(q) : i < j => ~StrLess(q[j], q[i])

\* the resources of the variable s in ascending order
RECURSIVE Ascending(_)
Ascending(S) ==
    IF S = {} THEN <<>>
    ELSE LET m == CHOOSE x \in S : \A y \in S \ {x} : StrLess(x, y)
         IN  <<m>> \o Ascending(S \ {m})

\* "resource:action1,action2" with the actions in ascending order
Entry(s, r) == r \o <<":">> \o Join(Ascending(ActionsOf(s, r)), <<",">>)

\* C11 as stated: flatten returns one string per resource, its actions in
\* ascending order, and the strings are in the ascending order of their resources.
C11_FlattenSortedByResource ==
    last.op = "flatten" =>
       LET rs == Ascending(ResourcesOf(last.recv))
       IN  last.ret = [i \in 1..Len(rs) |-> Entry(last.recv, rs[i])]

\* C11 amended: flatten returns one string per resource, its actions in ascending
\* order, and the strings are in ascending byte order as whole strings
\* "resource:actions", whatever order the maps were ranged over; where one
\* resource is a prefix of another, the separator ':' that follows the shorter
\* one is compared with the next character of the longer one, so that "r:f/b:..."
\* comes before "r:f:...".
C11_FlattenSortedAsStrings ==
    last.op = "flatten" =>
       /\ Len(last.ret) = Cardinality(ResourcesOf(last.recv))
       /\ {last.ret[i] : i \in 1..Len(last.ret)}
             = {Entry(last.recv, r) : r \in ResourcesOf(last.recv)}
       /\ IsSorted(last.ret)
       /\ ResourcesOf(last.recv) = Resources =>
             last.ret = <<Entry(last.recv, ResFooBar), Entry(last.recv, ResFoo)>>

\* C11 witness: a set that holds both resources, one with both actions, was
\* flattened
C11_Witness ==
    /\ last.op = "flatten"
    /\ ResourcesOf(last.recv) = Resources
    /\ ActionsOf(last.recv, ResFooBar) = Actions
    /\ Len(last.ret) = 2


\* the content of the variable s: its tokens with their action maps read
Content(s) == View(sets, heap, s)

\* C19 as stated: s.merge(t) leaves the content of its argument t as it was, and
\* so does an add or a merge on s that follows s.merge(t).
C19_ArgumentNeverChanged ==
    [][\A s, t \in SetIds :
          /\ (Was(last', "merge", s, t) /\ s # t /\ ~panicked') =>
                Content(t)' = Content(t)
          /\ (/\ Was(last, "merge", s, t) /\ s # t
              /\ last'.op \in {"add", "merge"} /\ last'.recv = s
              /\ ~panicked') =>
                Content(t)' = Content(t)]_vars

\* the actions held for resource r by a content (none when it holds no token)
Held(c, r) == IF r \in DOMAIN c.toks THEN c.toks[r] ELSE {}

\* the content that holds, per resource, the union of the actions of c and d
Union(c, d) ==
    [nil |-> c.nil,
     toks |-> [r \in DOMAIN c.toks \cup DOMAIN d.toks |-> Held(c, r) \cup Held(d, r)]]

\* a token as a content of its own
Single(r, acts) == [nil |-> FALSE, toks |-> Put(NoTokens, r, acts)]

\* what an add or a merge on s makes of s: per resource the union of what s held
\* and what was added
AddsUnion(s) ==
    /\ (last'.op = "add" /\ last'.recv = s /\ ~panicked') =>
          Content(s)' = Union(Content(s), Single(last'.param.resource, last'.param.actions))
    /\ \A t \in SetIds :
          (Was(last', "merge", s, t) /\ ~panicked') =>
             Content(s)' = Union(Content(s), Content(t))

\* C12 as stated: a set holds one token per resource added to it, with the union
\* of the actions added for that resource: an add or a merge on it adds the
\* actions of its argument to what the set held, and nothing but an add or a
\* merge on the set (or an assignment to the variable) changes what it holds, so
\* that the content does not depend on the order of the calls.
C12_UnionOfWhatWasAdded ==
    [][\A s \in SetIds :
          /\ AddsUnion(s)
          /\ (last'.recv # s /\ ~(last'.op = "clone" /\ last'.param = s)) =>
                Content(s)' = Content(s)]_vars


\* flatten of a content (C11: the order the maps are ranged over does not matter)
Flat(c) ==
    flatten(c, CHOOSE ro \in Orders(Resources) : TRUE, CHOOSE ao \in Orders(Actions) : TRUE)

\* the contents contains may be asked about
Contents ==
    {NilScopes} \cup
    {[nil |-> FALSE, toks |-> f] : f \in UNION {[D -> SUBSET Actions] : D \in SUBSET Resources}}

\* the step is s.add(ts) with ts.actions empty, and it returned
EmptyAdd(s) ==
    /\ last'.op = "add" /\ last'.recv = s /\ last'.param.actions = {}
    /\ ~panicked'

\* the step changes neither what s.flatten() returns nor what s.contains(other)
\* returns for any other
LooksUnchanged(s) ==
    /\ Flat(Content(s)') = Flat(Content(s))
    /\ \A other \in Contents :
          contains(Content(s)', other) = contains(Content(s), other)

\* C13 as stated: s.add(ts) with an empty action set changes neither s.flatten()
\* nor any s.contains(other), whether or not s held a token for ts.resource.
C13_EmptyAddIsNoOp ==
    [][\A s \in SetIds : EmptyAdd(s) => LooksUnchanged(s)]_vars

\* C13 amended: s.add(ts) with an empty action set changes neither s.flatten() nor
\* any s.contains(other) when s holds a token for ts.resource. When s holds none,
\* the token is inserted with no actions: s.flatten() gains the entry
\* "resource:" and s.contains(other) becomes true for the set that holds just
\* this token. (On a nil set the call does not return.)
C13_EmptyAddInsertsAbsent ==
    [][\A s \in SetIds :
          EmptyAdd(s) =>
             LET r == last'.param.resource
             IN  IF r \in DOMAIN Content(s).toks
                 THEN LooksUnchanged(s)
                 ELSE /\ ~Content(s).nil
                      /\ Content(s)' = Union(Content(s), Single(r, {}))
                      /\ Flat(Content(s)') = SortStrings(Flat(Content(s)) \o <<r \o <<":">>>>)
                      /\ ~contains(Content(s), Single(r, {}))
                      /\ contains(Content(s)', Single(r, {}))]_vars

\* C13 witness: a token with no actions was added to a set that held a token for
\* another resource only, and is now held
C13_Witness ==
    /\ last.op = "add" /\ last.recv = "A"
    /\ last.param = [resource |-> ResFoo, actions |-> {}]
    /\ Content("A").toks = Put(Single(ResFooBar, {PullAction}).toks, ResFoo, {})
    /\ ~panicked


\* C15: t = s.clone() holds what s holds, nil for nil and an empty non-nil set for
\* an empty one, and leaves s as it was; after it, add and merge calls on the
\* clone alone leave the content (so flatten) of the original as it was, and add
\* and merge calls on the original alone leave the content of the clone as it was.
C15_CloneIsIndependent ==
    [][\A s, t \in SetIds :
          /\ Was(last', "clone", s, t) =>
                /\ Content(t)' = Content(s)
                /\ Content(s)' = Content(s)
                /\ \A r \in ResourcesOf(s) : sets'[s].toks[r] # sets'[t].toks[r]
          /\ (track' = [src |-> s, dst |-> t, side |-> "dst"] /\ ~panicked') =>
                Content(s)' = Content(s) /\ Flat(Content(s)') = Flat(Content(s))
          /\ (track' = [src |-> s, dst |-> t, side |-> "src"] /\ ~panicked') =>
                Content(t)' = Content(t) /\ Flat(Content(t)') = Flat(Content(t))]_vars

\* C15 witness: after B = A.clone(), with A holding pull for "r:f", push was added
\* to the clone, and the original was then merged into the clone
C15_Witness ==
    /\ track = [src |-> "A", dst |-> "B", side |-> "dst"]
    /\ Was(last, "merge", "B", "A")
    /\ Content("A") = Single(ResFoo, {PullAction})
    /\ Content("B") = Single(ResFoo, Actions)
    /\ ~panicked


\* C16: parseTokenScope(ts.String()) succeeds and returns the resource and the
\* action set of ts, for every token ts with a non-empty action set that was
\* parsed from a string or built by repositoryScope and add.
C16_StringParsesBack ==
    (last.op = "parsed back" /\ last.recv.actions # {}) =>
        /\ ~last.ret.err
        /\ last.ret.token.resource = last.recv.resource
        /\ last.ret.token.actions = last.recv.actions

\* C16 witness: the token parsed from "::a," (resource ":", actions "a" and "")
\* was written as "::,a" and parsed back
C16_Witness ==
    /\ last.op = "parsed back"
    /\ last.recv = Token(<<":">>, {<<"a">>, <<>>})
    /\ last.param = <<":", ":", ",", "a">>
    /\ ~last.ret.err


\* ==================================== properties of the contexts

\* the resource of a locator: "repository:" and its path
ResourceOf(locator) == IF locator = <<"h", "/", "f">> THEN ResFoo ELSE ResFooBar

\* C14: contextWithRepositoryScope(s, ref, push), when it returns a context t,
\* gives it the scopes of s (none: the empty set) plus pull, and push when the flag
\* is set, on "repository:" + path of ref; its maps are its own; the scopes of s
\* and of every other context are what they were before the call.
C14_ChildScopeLeavesParent ==
    [][\A s, t \in SetIds :
          (/\ last'.op = "contextWithRepositoryScope" /\ last'.recv = s
           /\ last'.param.child = t /\ ~last'.ret) =>
             LET granted == {PullAction} \cup (IF last'.param.push THEN {PushAction} ELSE {})
                 ambient == IF Content(s).nil THEN EmptyScopes ELSE Content(s)
             IN  /\ ~panicked'
                 /\ Content(t)' = Union(ambient, Single(ResourceOf(last'.param.locator), granted))
                 /\ \A u \in SetIds \ {t} :
                       /\ Content(u)' = Content(u)
                       /\ Flat(Content(u)') = Flat(Content(u))
                       /\ Referenced(sets', {u}) \cap Referenced(sets', {t}) = {}]_vars

\* C14 witness: B, derived from A, holds pull on "r:f"; C was derived from B with
\* push on "r:f" and holds pull and push, and B still holds pull only
C14_Witness ==
    /\ last.op = "contextWithRepositoryScope" /\ last.recv = "B"
    /\ last.param = [child |-> "C", locator |-> <<"h", "/", "f">>, push |-> TRUE]
    /\ ~last.ret
    /\ Content("B") = Single(ResFoo, {PullAction})
    /\ Content("C") = Single(ResFoo, Actions)

\* the tokens parsed from the tokens of a scope parameter
ParsedTokens(params) ==
    {parseTokenScope(ParamScopes(params)[i]).token : i \in 1..Len(ParamScopes(params))}

\* C17: getTokenScopes(s, params) fails, returning no set, exactly when some
\* space-separated token of params["scope"] holds no ":"; otherwise it returns a
\* non-nil set that holds, per resource, the union of the actions of the tokens
\* parsed from params["scope"] and of the scopes of s; with no scope parameter it
\* returns what s holds. The scopes of s are as they were when it returns.
C17_TokenScopesAreUnion ==
    last.op = "getTokenScopes" =>
       LET params == last.param
           toks == ParamScopes(params)
           ambient == Content(last.recv)
           parsed == ParsedTokens(params)
           resources == {ts.resource : ts \in parsed} \cup DOMAIN ambient.toks
       IN  /\ last.ret.err <=> \E i \in 1..Len(toks) : \A j \in 1..Len(toks[i]) : toks[i][j] # ":"
           /\ last.ret.err => last.ret.scopes = NilScopes
           /\ ~last.ret.err =>
                 last.ret.scopes =
                    [nil |-> FALSE,
                     toks |-> [r \in resources |->
                                 UNION {ts.actions : ts \in {x \in parsed : x.resource = r}}
                                 \cup Held(ambient, r)]]
           /\ ~params.has => ~last.ret.err /\ last.ret.scopes.toks = ambient.toks
           /\ last.ret.ambient = ambient

\* C17 witness: the scopes of a context that holds pull on "r:f/b" were asked
\* for with the parameter "r:f:push r:f:pull", and a set with pull and push on
\* "r:f" and pull on "r:f/b" was returned
C17_Witness ==
    /\ last.op = "getTokenScopes" /\ last.recv = "B"
    /\ last.param = [has |-> TRUE,
                   scope |-> ResFoo \o <<":">> \o PushAction \o <<" ">> \o ResFoo \o <<":">> \o PullAction]
    /\ Content("B") = Single(ResFooBar, {PullAction})
    /\ ~last.ret.err
    /\ last.ret.scopes = Union(Single(ResFoo, Actions), Single(ResFooBar, {PullAction}))

====
